---------------------------- MODULE Spec2Model ----------------------------
(***************************************************************************)
(* CAP1188 capacitive touch sensor driver (CAP1188.h / CAP1188.cpp).       *)
(*                                                                         *)
(* The driver object holds four fields (_i2c, _i2cAddress, _resetPin,      *)
(* _csPin).  Every method is modelled as an operator that takes the        *)
(* "machine" m (driver fields + GPIO levels + the chip on the other side   *)
(* of the bus + the wire-level trace of the running call) and returns the  *)
(* machine after the call, statement by statement as the C++ runs.  One    *)
(* action per public method runs the method to completion.                 *)
(***************************************************************************)
EXTENDS Integers, Sequences, FiniteSets

VARIABLES
    this,     \* the CAP1188 object: [_i2c, _i2cAddress, _resetPin, _csPin]
    mode,     \* which init the handle went through last: "none", "I2C", "SPI"
    regs,     \* the chip's register file
    ptr,      \* the chip's SPI register pointer
    win,      \* bytes the chip has received in the current chip-select window
    pins,     \* GPIO output levels
    call,     \* the last public call: [op, args, ret]
    trace,    \* wire-level events of the last call, in order
    acc,      \* register accesses the chip performed during the last call
    pre,      \* the register file as it was when the last call started, or as
              \* a chip reset during the call left it
    prev,     \* the call before the last one since initialisation: [op, args, ret]
    nops,     \* number of calls made since the last initI2C / initSPI
    sched     \* the callers of the handle: whether they take a lock around each
              \* operation, who holds it, and how far a getSensorInputs that
              \* runs one register primitive at a time has come (with its locals)

vars == <<this, mode, regs, ptr, win, pins, call, trace, acc, pre, prev, nops, sched>>

----------------------------------------------------------------------------
(* Bounds of the model *)

\* how many of the sample bytes are used as data / threshold / status values
NData == 3
\* how many of the sample addresses the raw register primitives are called on
NRawAddr == 2
\* how many calls are made on a handle after one initialisation
MaxOps == 2

----------------------------------------------------------------------------
(* Program constants *)

HIGH == 1
LOW == 0

\* CAP1188.h
CAP1188_I2C_ADDRESS_VDD == \H28
CAP1188_I2C_ADDRESS_82K == \H29

\* CAP1188_reg.h (register map of the chip)
CAP1188_MAIN_CONTROL_REG == \H00
CAP1188_SENSOR_INPUT_STATUS_REG == \H03
CAP1188_AVERAGING_AND_SAMPLING_CONFIG_REG == \H24
CAP1188_MULTIPLE_TOUCH_CONFIGURATION_REG == \H2A
CAPP1188_RECALIBRATION_CONFIGURATION_REG == \H2F
CAP1188_SENSOR_INPUT_1_THRESHOLD_REG == \H30
CAP1188_SENSOR_INPUT_2_THRESHOLD_REG == \H31
CAP1188_SENSOR_INPUT_3_THRESHOLD_REG == \H32
CAP1188_SENSOR_INPUT_4_THRESHOLD_REG == \H33
CAP1188_SENSOR_INPUT_5_THRESHOLD_REG == \H34
CAP1188_SENSOR_INPUT_6_THRESHOLD_REG == \H35
CAP1188_SENSOR_INPUT_7_THRESHOLD_REG == \H36
CAP1188_SENSOR_INPUT_8_THRESHOLD_REG == \H37
CAP1188_STANDBY_CONFIGURATION_REG == \H41
CAP1188_SENSOR_INPUT_LED_LINKING_REG == \H72
CAP1188_PRODUCT_ID_REG == \HFD
CAP1188_MANUFACTURER_ID_REG == \HFE
CAP1188_REVISION_REG == \HFF

----------------------------------------------------------------------------
(* Value domains *)

Byte == 0..255

Min(a, b) == IF a < b THEN a ELSE b

\* Sample bytes: zero, odd and even non-zero values, an SPI op-code value,
\* all-ones, the top bit alone.
ByteSample == << \H00, \H05, \H7A, \HFF, \H80, \H40, \H01, \H7E >>

Data == { ByteSample[i] : i \in 1..Min(NData, Len(ByteSample)) }

\* Sample addresses for the raw register primitives.
AddrSample == << CAP1188_MAIN_CONTROL_REG, \H7A, CAP1188_SENSOR_INPUT_1_THRESHOLD_REG,
                 CAP1188_SENSOR_INPUT_LED_LINKING_REG >>

RawAddrs == { AddrSample[i] : i \in 1..Min(NRawAddr, Len(AddrSample)) }

ThresholdRegs ==
    { CAP1188_SENSOR_INPUT_1_THRESHOLD_REG, CAP1188_SENSOR_INPUT_2_THRESHOLD_REG,
      CAP1188_SENSOR_INPUT_3_THRESHOLD_REG, CAP1188_SENSOR_INPUT_4_THRESHOLD_REG,
      CAP1188_SENSOR_INPUT_5_THRESHOLD_REG, CAP1188_SENSOR_INPUT_6_THRESHOLD_REG,
      CAP1188_SENSOR_INPUT_7_THRESHOLD_REG, CAP1188_SENSOR_INPUT_8_THRESHOLD_REG }

\* The registers of the simulated register file.
RegAddrs ==
    { CAP1188_MAIN_CONTROL_REG, CAP1188_SENSOR_INPUT_STATUS_REG,
      CAP1188_AVERAGING_AND_SAMPLING_CONFIG_REG,
      CAP1188_MULTIPLE_TOUCH_CONFIGURATION_REG,
      CAPP1188_RECALIBRATION_CONFIGURATION_REG,
      CAP1188_STANDBY_CONFIGURATION_REG, CAP1188_SENSOR_INPUT_LED_LINKING_REG,
      CAP1188_PRODUCT_ID_REG, CAP1188_MANUFACTURER_ID_REG, CAP1188_REVISION_REG }
    \cup ThresholdRegs \cup { AddrSample[i] : i \in 1..Len(AddrSample) }

\* GPIO pins of the board and I2C addresses the caller may pass.  All are
\* below 128, so the int8_t fields of the object hold them unchanged.
Pins == {4, 5}
I2CAddrs == {CAP1188_I2C_ADDRESS_VDD, CAP1188_I2C_ADDRESS_82K}

----------------------------------------------------------------------------
(* Bit operations on bytes, as the C++ operators compute them *)

RECURSIVE BitAnd(_, _)
BitAnd(a, b) ==
    IF a = 0 \/ b = 0 THEN 0
    ELSE (a % 2) * (b % 2) + 2 * BitAnd(a \div 2, b \div 2)

RECURSIVE BitOr(_, _)
BitOr(a, b) ==
    IF a = 0 THEN b
    ELSE IF b = 0 THEN a
    ELSE (IF a % 2 = 1 \/ b % 2 = 1 THEN 1 ELSE 0) + 2 * BitOr(a \div 2, b \div 2)

\* x >> n
Shr(x, n) == x \div (2 ^ n)

\* x << n
Shl(x, n) == x * (2 ^ n)

Bit(x, n) == Shr(x, n) % 2

----------------------------------------------------------------------------
(* The environment: GPIO, the SPI and I2C primitives, and the chip behind   *)
(* them (a simulated register file with the chip's SPI command parser).     *)

\* A call of a public method as its caller sees it: name, arguments, result.
Call(op, args, ret) == [op |-> op, args |-> args, ret |-> ret]

Ev(kind, a, b, bytes) == [kind |-> kind, a |-> a, b |-> b, bytes |-> bytes]

Access(rw, addr, val) == [rw |-> rw, addr |-> addr, val |-> val]

\* Register contents after a chip reset.
ResetDefaults ==
    [a \in RegAddrs |->
        CASE a = CAP1188_AVERAGING_AND_SAMPLING_CONFIG_REG -> \H39
          [] a = CAP1188_MULTIPLE_TOUCH_CONFIGURATION_REG -> \H80
          [] a = CAPP1188_RECALIBRATION_CONFIGURATION_REG -> \H8A
          [] a \in ThresholdRegs -> \H40
          [] a = CAP1188_STANDBY_CONFIGURATION_REG -> \H39
          [] a = CAP1188_PRODUCT_ID_REG -> \H50
          [] a = CAP1188_MANUFACTURER_ID_REG -> \H5D
          [] a = CAP1188_REVISION_REG -> \H83
          [] OTHER -> \H00]

RegRead(m, addr) == IF addr \in DOMAIN m.regs THEN m.regs[addr] ELSE 0

RegWrite(m, addr, val) ==
    [m EXCEPT !.regs = IF addr \in DOMAIN m.regs THEN [@ EXCEPT ![addr] = val] ELSE @,
              !.acc = Append(@, Access("w", addr, val))]

\* The chip listens on SPI only when it is strapped for SPI and its
\* chip-select input (wired to the pin given to initSPI) is low.
ChipSelected(m) == m.mode = "SPI" /\ m.pins[m.this._csPin] = LOW

\* One byte clocked into the chip: the first byte of a window is the op-code.
ChipByte(m, b) ==
    LET w == Append(m.win, b)
        m1 == [m EXCEPT !.win = w]
    IN  IF Len(w) = 2 /\ w[1] = \H7D THEN [m1 EXCEPT !.ptr = b]
        ELSE IF Len(w) = 2 /\ w[1] = \H7E THEN RegWrite(m1, m1.ptr, b)
        ELSE m1

RECURSIVE ChipBytes(_, _)
ChipBytes(m, bytes) ==
    IF bytes = <<>> THEN m ELSE ChipBytes(ChipByte(m, Head(bytes)), Tail(bytes))

\* The chip's reaction to a pin edge: a high reset line resets the register
\* file; a falling chip-select opens a new command window.
ChipPin(m, pin, val) ==
    LET m1 == IF pin = m.this._resetPin /\ val = HIGH /\ m.mode # "none"
              THEN [m EXCEPT !.regs = ResetDefaults, !.snap = ResetDefaults,
                             !.ptr = 0, !.win = <<>>]
              ELSE m
    IN  IF m1.mode = "SPI" /\ pin = m1.this._csPin /\ val = LOW
        THEN [m1 EXCEPT !.win = <<>>]
        ELSE m1

pinMode(m, pin) == [m EXCEPT !.trace = Append(@, Ev("pinMode", pin, 0, <<>>))]

digitalWrite(m, pin, val) ==
    ChipPin([m EXCEPT !.pins[pin] = val,
                      !.trace = Append(@, Ev("digitalWrite", pin, val, <<>>))],
            pin, val)

delay(m, ms) == [m EXCEPT !.trace = Append(@, Ev("delay", ms, 0, <<>>))]

\* SPI.transferBytes(out, NULL, n): shift n bytes out, capture nothing.
SPI_transferBytes_out(m, out) ==
    LET m1 == [m EXCEPT !.trace = Append(@, Ev("spiOut", 0, 0, out))]
    IN  IF ChipSelected(m1) THEN ChipBytes(m1, out) ELSE m1

\* SPI.transferBytes(NULL, &in, 1): capture one byte (left in m.ret).  The
\* chip answers a read command with the pointed register; otherwise the data
\* line carries m.idle.
SPI_transferBytes_in(m) ==
    LET driven == ChipSelected(m) /\ m.win = << \H7F >>
        v == IF driven THEN RegRead(m, m.ptr) ELSE m.idle
    IN  [m EXCEPT !.ret = v,
                  !.trace = Append(@, Ev("spiIn", 0, 0, <<v>>)),
                  !.acc = IF driven THEN Append(@, Access("r", m.ptr, v)) ELSE @]

\* I2Cdev::readByte(devAddr, regAddr, &data): data is left in m.ret.  When
\* the transfer cannot complete the primitive reports it in its return value,
\* which no caller in CAP1188.cpp looks at, and does not store to data: the
\* caller's local, never initialised, keeps an indeterminate byte (m.junk).
I2Cdev_readByte(m, devAddr, regAddr) ==
    LET driven == m.mode = "I2C"
        v == IF driven THEN RegRead(m, regAddr) ELSE m.idle
    IN  IF m.fault
        THEN [m EXCEPT !.ret = m.junk,
                       !.trace = Append(@, Ev("i2cReadFailed", devAddr, regAddr, <<>>))]
        ELSE [m EXCEPT !.ret = v,
                       !.trace = Append(@, Ev("i2cRead", devAddr, regAddr, <<v>>)),
                       !.acc = IF driven THEN Append(@, Access("r", regAddr, v)) ELSE @]

\* I2Cdev::writeByte(devAddr, regAddr, data).  A transfer that cannot complete
\* is reported in the return value (ignored by every caller) and writes
\* nothing.
I2Cdev_writeByte(m, devAddr, regAddr, data) ==
    LET m1 == [m EXCEPT !.trace = Append(@, Ev("i2cWrite", devAddr, regAddr, <<data>>))]
    IN  IF m.fault
        THEN [m EXCEPT !.trace = Append(@, Ev("i2cWriteFailed", devAddr, regAddr, <<data>>))]
        ELSE IF m1.mode = "I2C" THEN RegWrite(m1, regAddr, data) ELSE m1

----------------------------------------------------------------------------
(* SPI command primitives (private methods) *)

resetSPI(m) ==
    LET buff == << \H7A, \H7A >>
        m1 == digitalWrite(m, m.this._csPin, LOW)
        m2 == SPI_transferBytes_out(m1, buff)
    IN  digitalWrite(m2, m2.this._csPin, HIGH)

\* setRegisterAddress that never releases chip-select
setRegisterAddress_csLeftLow(m, regAddress) ==
    LET buff == << \H7D, regAddress >>
        m1 == digitalWrite(m, m.this._csPin, LOW)
    IN  SPI_transferBytes_out(m1, buff)

setRegisterAddress(m, regAddress) ==
    LET buff == << \H7D, regAddress >>
        m1 == digitalWrite(m, m.this._csPin, LOW)
        m2 == SPI_transferBytes_out(m1, buff)
    IN  digitalWrite(m2, m2.this._csPin, HIGH)

\* returns the captured byte in m.ret
readRegister(m) ==
    LET buff == << \H7F >>
        m1 == digitalWrite(m, m.this._csPin, LOW)
        m2 == SPI_transferBytes_out(m1, buff)
        m3 == SPI_transferBytes_in(m2)
    IN  digitalWrite(m3, m3.this._csPin, HIGH)

writeRegister(m, data) ==
    LET buff == << \H7E, data >>
        m1 == digitalWrite(m, m.this._csPin, LOW)
        m2 == SPI_transferBytes_out(m1, buff)
    IN  digitalWrite(m2, m2.this._csPin, HIGH)

\* writeRegisterAtAddress with both commands inside one chip-select window
writeRegisterAtAddress_oneWindow(m, regAddress, data) ==
    LET m1 == digitalWrite(m, m.this._csPin, LOW)
        m2 == SPI_transferBytes_out(m1, << \H7D, regAddress >>)
        m3 == SPI_transferBytes_out(m2, << \H7E, data >>)
        m4 == digitalWrite(m3, m3.this._csPin, HIGH)
    IN  [m4 EXCEPT !.ret = TRUE]

writeRegisterAtAddress(m, regAddress, data) ==
    LET m1 == setRegisterAddress(m, regAddress)
        m2 == writeRegister(m1, data)
    IN  [m2 EXCEPT !.ret = TRUE]

\* readRegisterFromAddress that relies on the pointer left by the last access
readRegisterFromAddress_noPointer(m, regAddress) == readRegister(m)

\* *data is left in m.ret
readRegisterFromAddress(m, regAddress) ==
    LET m1 == setRegisterAddress(m, regAddress)
    IN  readRegister(m1)

----------------------------------------------------------------------------
(* Public methods *)

\* setMultipleTouchConfiguration that encodes the count itself, not count - 1
setMultipleTouchConfiguration_countShifted(m, multipleTouchCircuitryEnable, numberOfSimultaneousTouches) ==
    LET valid == ~multipleTouchCircuitryEnable \/ numberOfSimultaneousTouches \in 1..4
        buff == IF ~multipleTouchCircuitryEnable THEN 0
                ELSE BitOr(128, numberOfSimultaneousTouches * 4)
    IN  IF ~valid THEN [m EXCEPT !.ret = FALSE]
        ELSE IF ~m.this._i2c
        THEN [writeRegisterAtAddress(m, CAP1188_MULTIPLE_TOUCH_CONFIGURATION_REG, buff)
                EXCEPT !.ret = TRUE]
        ELSE [I2Cdev_writeByte(m, m.this._i2cAddress,
                               CAP1188_MULTIPLE_TOUCH_CONFIGURATION_REG, buff)
                EXCEPT !.ret = TRUE]

\* setMultipleTouchConfiguration that clamps an out-of-range count to 4
setMultipleTouchConfiguration_clamped(m, multipleTouchCircuitryEnable, numberOfSimultaneousTouches) ==
    LET valid == ~multipleTouchCircuitryEnable \/ numberOfSimultaneousTouches >= 1
        buff == IF ~multipleTouchCircuitryEnable THEN 0
                ELSE CASE numberOfSimultaneousTouches = 1 -> 128
                       [] numberOfSimultaneousTouches = 2 -> 132
                       [] numberOfSimultaneousTouches = 3 -> 136
                       [] OTHER -> 140
    IN  IF ~valid THEN [m EXCEPT !.ret = FALSE]
        ELSE IF ~m.this._i2c
        THEN [writeRegisterAtAddress(m, CAP1188_MULTIPLE_TOUCH_CONFIGURATION_REG, buff)
                EXCEPT !.ret = TRUE]
        ELSE [I2Cdev_writeByte(m, m.this._i2cAddress,
                               CAP1188_MULTIPLE_TOUCH_CONFIGURATION_REG, buff)
                EXCEPT !.ret = TRUE]

setMultipleTouchConfiguration(m, multipleTouchCircuitryEnable, numberOfSimultaneousTouches) ==
    LET valid == ~multipleTouchCircuitryEnable \/ numberOfSimultaneousTouches \in 1..4
        buff == IF ~multipleTouchCircuitryEnable THEN 0
                ELSE CASE numberOfSimultaneousTouches = 1 -> 128
                       [] numberOfSimultaneousTouches = 2 -> 132
                       [] numberOfSimultaneousTouches = 3 -> 136
                       [] numberOfSimultaneousTouches = 4 -> 140
                       [] OTHER -> 0
    IN  IF ~valid THEN [m EXCEPT !.ret = FALSE]
        ELSE IF ~m.this._i2c
        THEN [writeRegisterAtAddress(m, CAP1188_MULTIPLE_TOUCH_CONFIGURATION_REG, buff)
                EXCEPT !.ret = TRUE]
        ELSE [I2Cdev_writeByte(m, m.this._i2cAddress,
                               CAP1188_MULTIPLE_TOUCH_CONFIGURATION_REG, buff)
                EXCEPT !.ret = TRUE]

setSensorInputLEDLinking(m, ledsToLink) ==
    IF ~m.this._i2c
    THEN [writeRegisterAtAddress(m, CAP1188_SENSOR_INPUT_LED_LINKING_REG, ledsToLink)
            EXCEPT !.ret = TRUE]
    ELSE [I2Cdev_writeByte(m, m.this._i2cAddress,
                           CAP1188_SENSOR_INPUT_LED_LINKING_REG, ledsToLink)
            EXCEPT !.ret = TRUE]

initI2C(m, address, resetPin) ==
    LET m0 == [m EXCEPT !.this._resetPin = resetPin,
                        !.this._i2cAddress = address,
                        !.this._i2c = TRUE]
        m1 == pinMode(m0, m0.this._resetPin)
        m2 == digitalWrite(m1, m1.this._resetPin, HIGH)
        m3 == delay(m2, 10)
        m4 == digitalWrite(m3, m3.this._resetPin, LOW)
        m5 == setMultipleTouchConfiguration(m4, FALSE, 0)
        m6 == setSensorInputLEDLinking(m5, 255)
    IN  [m6 EXCEPT !.ret = 0]

\* initSPI that resets the SPI interface before the pin-level reset
initSPI_interfaceFirst(m, csPin, resetPin) ==
    LET m0 == [m EXCEPT !.this._resetPin = resetPin,
                        !.this._csPin = csPin,
                        !.this._i2c = FALSE]
        m1 == pinMode(m0, m0.this._resetPin)
        m2 == pinMode(m1, m1.this._csPin)
        m3 == resetSPI(m2)
        m4 == digitalWrite(m3, m3.this._resetPin, HIGH)
        m5 == delay(m4, 10)
        m6 == digitalWrite(m5, m5.this._resetPin, LOW)
        m7 == setMultipleTouchConfiguration(m6, FALSE, 0)
        m8 == setSensorInputLEDLinking(m7, 255)
    IN  [m8 EXCEPT !.ret = 0]

initSPI(m, csPin, resetPin) ==
    LET m0 == [m EXCEPT !.this._resetPin = resetPin,
                        !.this._csPin = csPin,
                        !.this._i2c = FALSE]
        m1 == pinMode(m0, m0.this._resetPin)
        m2 == pinMode(m1, m1.this._csPin)
        m3 == digitalWrite(m2, m2.this._resetPin, HIGH)
        m4 == delay(m3, 10)
        m5 == digitalWrite(m4, m4.this._resetPin, LOW)
        m6 == resetSPI(m5)
        m7 == setMultipleTouchConfiguration(m6, FALSE, 0)
        m8 == setSensorInputLEDLinking(m7, 255)
    IN  [m8 EXCEPT !.ret = 0]

getProductId(m) ==
    IF ~m.this._i2c
    THEN readRegisterFromAddress(m, CAP1188_PRODUCT_ID_REG)
    ELSE I2Cdev_readByte(m, m.this._i2cAddress, CAP1188_PRODUCT_ID_REG)

\* getManufacturerId pasted from getProductId with the register left as it was
getManufacturerId_productIdReg(m) ==
    IF ~m.this._i2c
    THEN readRegisterFromAddress(m, CAP1188_PRODUCT_ID_REG)
    ELSE I2Cdev_readByte(m, m.this._i2cAddress, CAP1188_PRODUCT_ID_REG)

getManufacturerId(m) ==
    IF ~m.this._i2c
    THEN readRegisterFromAddress(m, CAP1188_MANUFACTURER_ID_REG)
    ELSE I2Cdev_readByte(m, m.this._i2cAddress, CAP1188_MANUFACTURER_ID_REG)

\* getRevision that always takes the SPI path
getRevision_spiOnly(m) == readRegisterFromAddress(m, CAP1188_REVISION_REG)

getRevision(m) ==
    IF ~m.this._i2c
    THEN readRegisterFromAddress(m, CAP1188_REVISION_REG)
    ELSE I2Cdev_readByte(m, m.this._i2cAddress, CAP1188_REVISION_REG)

\* getSensorInputs that writes main control back as read (INT bit not cleared)
getSensorInputs_noClear(m) ==
    LET m1 == IF ~m.this._i2c
              THEN readRegisterFromAddress(m, CAP1188_SENSOR_INPUT_STATUS_REG)
              ELSE I2Cdev_readByte(m, m.this._i2cAddress, CAP1188_SENSOR_INPUT_STATUS_REG)
        keys == m1.ret
        m2 == IF ~m1.this._i2c
              THEN readRegisterFromAddress(m1, CAP1188_MAIN_CONTROL_REG)
              ELSE I2Cdev_readByte(m1, m1.this._i2cAddress, CAP1188_MAIN_CONTROL_REG)
        currentRegState == m2.ret
        m3 == IF ~m2.this._i2c
              THEN writeRegisterAtAddress(m2, CAP1188_MAIN_CONTROL_REG, currentRegState)
              ELSE I2Cdev_writeByte(m2, m2.this._i2cAddress, CAP1188_MAIN_CONTROL_REG,
                                    currentRegState)
    IN  IF keys # 0 THEN [m3 EXCEPT !.ret = keys] ELSE [m1 EXCEPT !.ret = keys]

\* getSensorInputs that clears the interrupt whether or not a key is latched
getSensorInputs_alwaysClear(m) ==
    LET m1 == IF ~m.this._i2c
              THEN readRegisterFromAddress(m, CAP1188_SENSOR_INPUT_STATUS_REG)
              ELSE I2Cdev_readByte(m, m.this._i2cAddress, CAP1188_SENSOR_INPUT_STATUS_REG)
        keys == m1.ret
        m2 == IF ~m1.this._i2c
              THEN readRegisterFromAddress(m1, CAP1188_MAIN_CONTROL_REG)
              ELSE I2Cdev_readByte(m1, m1.this._i2cAddress, CAP1188_MAIN_CONTROL_REG)
        currentRegState == BitAnd(m2.ret, \HFE)
        m3 == IF ~m2.this._i2c
              THEN writeRegisterAtAddress(m2, CAP1188_MAIN_CONTROL_REG, currentRegState)
              ELSE I2Cdev_writeByte(m2, m2.this._i2cAddress, CAP1188_MAIN_CONTROL_REG,
                                    currentRegState)
    IN  [m3 EXCEPT !.ret = keys]

\* getSensorInputs that writes main control back through the register pointer
\* its read has just set, without a new set-pointer command
getSensorInputs_pointerReused(m) ==
    LET m1 == IF ~m.this._i2c
              THEN readRegisterFromAddress(m, CAP1188_SENSOR_INPUT_STATUS_REG)
              ELSE I2Cdev_readByte(m, m.this._i2cAddress, CAP1188_SENSOR_INPUT_STATUS_REG)
        keys == m1.ret
        m2 == IF ~m1.this._i2c
              THEN readRegisterFromAddress(m1, CAP1188_MAIN_CONTROL_REG)
              ELSE I2Cdev_readByte(m1, m1.this._i2cAddress, CAP1188_MAIN_CONTROL_REG)
        currentRegState == BitAnd(m2.ret, \HFE)
        m3 == IF ~m2.this._i2c
              THEN writeRegister(m2, currentRegState)
              ELSE I2Cdev_writeByte(m2, m2.this._i2cAddress, CAP1188_MAIN_CONTROL_REG,
                                    currentRegState)
    IN  IF keys # 0 THEN [m3 EXCEPT !.ret = keys] ELSE [m1 EXCEPT !.ret = keys]

getSensorInputs(m) ==
    LET m1 == IF ~m.this._i2c
              THEN readRegisterFromAddress(m, CAP1188_SENSOR_INPUT_STATUS_REG)
              ELSE I2Cdev_readByte(m, m.this._i2cAddress, CAP1188_SENSOR_INPUT_STATUS_REG)
        keys == m1.ret
        m2 == IF ~m1.this._i2c
              THEN readRegisterFromAddress(m1, CAP1188_MAIN_CONTROL_REG)
              ELSE I2Cdev_readByte(m1, m1.this._i2cAddress, CAP1188_MAIN_CONTROL_REG)
        \* currentRegState & ~0x01, truncated to uint8_t
        currentRegState == BitAnd(m2.ret, \HFE)
        m3 == IF ~m2.this._i2c
              THEN writeRegisterAtAddress(m2, CAP1188_MAIN_CONTROL_REG, currentRegState)
              ELSE I2Cdev_writeByte(m2, m2.this._i2cAddress, CAP1188_MAIN_CONTROL_REG,
                                    currentRegState)
    IN  IF keys # 0 THEN [m3 EXCEPT !.ret = keys] ELSE [m1 EXCEPT !.ret = keys]

\* getSensorInputs one register primitive at a time, for callers that may be
\* interleaved: the read of the keys ...
getSensorInputs_readKeys(m) ==
    IF ~m.this._i2c
    THEN readRegisterFromAddress(m, CAP1188_SENSOR_INPUT_STATUS_REG)
    ELSE I2Cdev_readByte(m, m.this._i2cAddress, CAP1188_SENSOR_INPUT_STATUS_REG)

\* getSensorInputs_readControl that takes the keys for the register state
getSensorInputs_readControl_keysReused(m, keys) ==
    [m EXCEPT !.ret = BitAnd(keys, \HFE)]

\* ... under "if (keys)", the read of main control and the clearing of the INT
\* bit in the local currentRegState (left in m.ret) ...
getSensorInputs_readControl(m, keys) ==
    LET m2 == IF ~m.this._i2c
              THEN readRegisterFromAddress(m, CAP1188_MAIN_CONTROL_REG)
              ELSE I2Cdev_readByte(m, m.this._i2cAddress, CAP1188_MAIN_CONTROL_REG)
    IN  [m2 EXCEPT !.ret = BitAnd(m2.ret, \HFE)]

\* ... and the write of currentRegState back to main control.
getSensorInputs_writeControl(m, currentRegState) ==
    IF ~m.this._i2c
    THEN writeRegisterAtAddress(m, CAP1188_MAIN_CONTROL_REG, currentRegState)
    ELSE I2Cdev_writeByte(m, m.this._i2cAddress, CAP1188_MAIN_CONTROL_REG,
                          currentRegState)

\* setSensorInputThreshold whose case 3 was pasted from case 2
setSensorInputThreshold_pastedCase(m, buttonNumber, threshold) ==
    LET reg == IF buttonNumber = 3 THEN CAP1188_SENSOR_INPUT_2_THRESHOLD_REG
               ELSE CAP1188_SENSOR_INPUT_1_THRESHOLD_REG + (buttonNumber - 1)
    IN  IF buttonNumber \notin 1..8 THEN [m EXCEPT !.ret = FALSE]
        ELSE IF ~m.this._i2c
        THEN [writeRegisterAtAddress(m, reg, threshold) EXCEPT !.ret = TRUE]
        ELSE [I2Cdev_writeByte(m, m.this._i2cAddress, reg, threshold) EXCEPT !.ret = TRUE]

\* setSensorInputThreshold that takes channel numbers from 0
setSensorInputThreshold_fromZero(m, buttonNumber, threshold) ==
    LET reg == CAP1188_SENSOR_INPUT_1_THRESHOLD_REG + (buttonNumber - 1)
    IN  IF buttonNumber \notin 0..8 THEN [m EXCEPT !.ret = FALSE]
        ELSE IF ~m.this._i2c
        THEN [writeRegisterAtAddress(m, reg, threshold) EXCEPT !.ret = TRUE]
        ELSE [I2Cdev_writeByte(m, m.this._i2cAddress, reg, threshold) EXCEPT !.ret = TRUE]

setSensorInputThreshold(m, buttonNumber, threshold) ==
    CASE
         buttonNumber = 1 ->
            IF ~m.this._i2c
            THEN [writeRegisterAtAddress(m, CAP1188_SENSOR_INPUT_1_THRESHOLD_REG, threshold) EXCEPT !.ret = TRUE]
            ELSE [I2Cdev_writeByte(m, m.this._i2cAddress, CAP1188_SENSOR_INPUT_1_THRESHOLD_REG, threshold) EXCEPT !.ret = TRUE]
      [] buttonNumber = 2 ->
            IF ~m.this._i2c
            THEN [writeRegisterAtAddress(m, CAP1188_SENSOR_INPUT_2_THRESHOLD_REG, threshold) EXCEPT !.ret = TRUE]
            ELSE [I2Cdev_writeByte(m, m.this._i2cAddress, CAP1188_SENSOR_INPUT_2_THRESHOLD_REG, threshold) EXCEPT !.ret = TRUE]
      [] buttonNumber = 3 ->
            IF ~m.this._i2c
            THEN [writeRegisterAtAddress(m, CAP1188_SENSOR_INPUT_3_THRESHOLD_REG, threshold) EXCEPT !.ret = TRUE]
            ELSE [I2Cdev_writeByte(m, m.this._i2cAddress, CAP1188_SENSOR_INPUT_3_THRESHOLD_REG, threshold) EXCEPT !.ret = TRUE]
      [] buttonNumber = 4 ->
            IF ~m.this._i2c
            THEN [writeRegisterAtAddress(m, CAP1188_SENSOR_INPUT_4_THRESHOLD_REG, threshold) EXCEPT !.ret = TRUE]
            ELSE [I2Cdev_writeByte(m, m.this._i2cAddress, CAP1188_SENSOR_INPUT_4_THRESHOLD_REG, threshold) EXCEPT !.ret = TRUE]
      [] buttonNumber = 5 ->
            IF ~m.this._i2c
            THEN [writeRegisterAtAddress(m, CAP1188_SENSOR_INPUT_5_THRESHOLD_REG, threshold) EXCEPT !.ret = TRUE]
            ELSE [I2Cdev_writeByte(m, m.this._i2cAddress, CAP1188_SENSOR_INPUT_5_THRESHOLD_REG, threshold) EXCEPT !.ret = TRUE]
      [] buttonNumber = 6 ->
            IF ~m.this._i2c
            THEN [writeRegisterAtAddress(m, CAP1188_SENSOR_INPUT_6_THRESHOLD_REG, threshold) EXCEPT !.ret = TRUE]
            ELSE [I2Cdev_writeByte(m, m.this._i2cAddress, CAP1188_SENSOR_INPUT_6_THRESHOLD_REG, threshold) EXCEPT !.ret = TRUE]
      [] buttonNumber = 7 ->
            IF ~m.this._i2c
            THEN [writeRegisterAtAddress(m, CAP1188_SENSOR_INPUT_7_THRESHOLD_REG, threshold) EXCEPT !.ret = TRUE]
            ELSE [I2Cdev_writeByte(m, m.this._i2cAddress, CAP1188_SENSOR_INPUT_7_THRESHOLD_REG, threshold) EXCEPT !.ret = TRUE]
      [] buttonNumber = 8 ->
            IF ~m.this._i2c
            THEN [writeRegisterAtAddress(m, CAP1188_SENSOR_INPUT_8_THRESHOLD_REG, threshold) EXCEPT !.ret = TRUE]
            ELSE [I2Cdev_writeByte(m, m.this._i2cAddress, CAP1188_SENSOR_INPUT_8_THRESHOLD_REG, threshold) EXCEPT !.ret = TRUE]
      [] OTHER -> [m EXCEPT !.ret = FALSE]

getSensorInputThreshold(m, buttonNumber) ==
    CASE
         buttonNumber = 1 ->
            IF ~m.this._i2c
            THEN readRegisterFromAddress(m, CAP1188_SENSOR_INPUT_1_THRESHOLD_REG)
            ELSE I2Cdev_readByte(m, m.this._i2cAddress, CAP1188_SENSOR_INPUT_1_THRESHOLD_REG)
      [] buttonNumber = 2 ->
            IF ~m.this._i2c
            THEN readRegisterFromAddress(m, CAP1188_SENSOR_INPUT_2_THRESHOLD_REG)
            ELSE I2Cdev_readByte(m, m.this._i2cAddress, CAP1188_SENSOR_INPUT_2_THRESHOLD_REG)
      [] buttonNumber = 3 ->
            IF ~m.this._i2c
            THEN readRegisterFromAddress(m, CAP1188_SENSOR_INPUT_3_THRESHOLD_REG)
            ELSE I2Cdev_readByte(m, m.this._i2cAddress, CAP1188_SENSOR_INPUT_3_THRESHOLD_REG)
      [] buttonNumber = 4 ->
            IF ~m.this._i2c
            THEN readRegisterFromAddress(m, CAP1188_SENSOR_INPUT_4_THRESHOLD_REG)
            ELSE I2Cdev_readByte(m, m.this._i2cAddress, CAP1188_SENSOR_INPUT_4_THRESHOLD_REG)
      [] buttonNumber = 5 ->
            IF ~m.this._i2c
            THEN readRegisterFromAddress(m, CAP1188_SENSOR_INPUT_5_THRESHOLD_REG)
            ELSE I2Cdev_readByte(m, m.this._i2cAddress, CAP1188_SENSOR_INPUT_5_THRESHOLD_REG)
      [] buttonNumber = 6 ->
            IF ~m.this._i2c
            THEN readRegisterFromAddress(m, CAP1188_SENSOR_INPUT_6_THRESHOLD_REG)
            ELSE I2Cdev_readByte(m, m.this._i2cAddress, CAP1188_SENSOR_INPUT_6_THRESHOLD_REG)
      [] buttonNumber = 7 ->
            IF ~m.this._i2c
            THEN readRegisterFromAddress(m, CAP1188_SENSOR_INPUT_7_THRESHOLD_REG)
            ELSE I2Cdev_readByte(m, m.this._i2cAddress, CAP1188_SENSOR_INPUT_7_THRESHOLD_REG)
      [] buttonNumber = 8 ->
            IF ~m.this._i2c
            THEN readRegisterFromAddress(m, CAP1188_SENSOR_INPUT_8_THRESHOLD_REG)
            ELSE I2Cdev_readByte(m, m.this._i2cAddress, CAP1188_SENSOR_INPUT_8_THRESHOLD_REG)
      [] OTHER -> [m EXCEPT !.ret = 0]

\* setStandbyConfiguration with the sampling time one bit too high
setStandbyConfiguration_samplingTimeShift3(m, averageSum, samplesPerMeasurement, samplingTime, cycleTime) ==
    LET reg == BitOr(BitOr(BitOr(Shl(averageSum, 7), Shl(samplesPerMeasurement, 4)),
                           Shl(samplingTime, 3)), cycleTime) % 256
    IN  IF ~m.this._i2c
        THEN [writeRegisterAtAddress(m, CAP1188_STANDBY_CONFIGURATION_REG, reg)
                EXCEPT !.ret = TRUE]
        ELSE [I2Cdev_writeByte(m, m.this._i2cAddress, CAP1188_STANDBY_CONFIGURATION_REG, reg)
                EXCEPT !.ret = TRUE]

\* averageSum << 7 | samplesPerMeasurement << 4 | samplingTime << 2 | cycleTime,
\* computed in int and stored in a uint8_t
setStandbyConfiguration(m, averageSum, samplesPerMeasurement, samplingTime, cycleTime) ==
    LET reg == BitOr(BitOr(BitOr(Shl(averageSum, 7), Shl(samplesPerMeasurement, 4)),
                           Shl(samplingTime, 2)), cycleTime) % 256
    IN  IF ~m.this._i2c
        THEN [writeRegisterAtAddress(m, CAP1188_STANDBY_CONFIGURATION_REG, reg)
                EXCEPT !.ret = TRUE]
        ELSE [I2Cdev_writeByte(m, m.this._i2cAddress, CAP1188_STANDBY_CONFIGURATION_REG, reg)
                EXCEPT !.ret = TRUE]

\* the four out-parameters and the return value are left in m.ret
getStandbyConfiguration(m) ==
    LET m1 == IF ~m.this._i2c
              THEN readRegisterFromAddress(m, CAP1188_STANDBY_CONFIGURATION_REG)
              ELSE I2Cdev_readByte(m, m.this._i2cAddress, CAP1188_STANDBY_CONFIGURATION_REG)
        reg == m1.ret
    IN  [m1 EXCEPT !.ret = [averageSum |-> Shr(reg, 7),
                            samplesPerMeasurement |-> BitAnd(Shr(reg, 4), \H07),
                            samplingTime |-> BitAnd(Shr(reg, 2), \H03),
                            cycleTime |-> BitAnd(reg, \H03),
                            ret |-> TRUE]]

setAveragingAndSamplingConfig(m, samplesPerMeasurement, samplingTime, cycleTime) ==
    LET reg == BitOr(BitOr(Shl(samplesPerMeasurement, 4), Shl(samplingTime, 2)),
                     cycleTime) % 256
    IN  IF ~m.this._i2c
        THEN [writeRegisterAtAddress(m, CAP1188_AVERAGING_AND_SAMPLING_CONFIG_REG, reg)
                EXCEPT !.ret = TRUE]
        ELSE [I2Cdev_writeByte(m, m.this._i2cAddress,
                               CAP1188_AVERAGING_AND_SAMPLING_CONFIG_REG, reg)
                EXCEPT !.ret = TRUE]

\* the three out-parameters and the return value are left in m.ret
getAveragingAndSamplingConfig(m) ==
    LET m1 == IF ~m.this._i2c
              THEN readRegisterFromAddress(m, CAP1188_AVERAGING_AND_SAMPLING_CONFIG_REG)
              ELSE I2Cdev_readByte(m, m.this._i2cAddress,
                                   CAP1188_AVERAGING_AND_SAMPLING_CONFIG_REG)
        reg == m1.ret
    IN  [m1 EXCEPT !.ret = [samplesPerMeasurement |-> BitAnd(Shr(reg, 4), \H07),
                            samplingTime |-> BitAnd(Shr(reg, 2), \H03),
                            cycleTime |-> BitAnd(reg, \H03),
                            ret |-> TRUE]]

\* lines 496-525: read the recalibration configuration, clear B7, write back
setSensorInputThresholdAll_clearB7(m) ==
    LET m1 == IF ~m.this._i2c
              THEN readRegisterFromAddress(m, CAPP1188_RECALIBRATION_CONFIGURATION_REG)
              ELSE I2Cdev_readByte(m, m.this._i2cAddress,
                                   CAPP1188_RECALIBRATION_CONFIGURATION_REG)
        reg == BitAnd(m1.ret, \H7F)
    IN  IF ~m1.this._i2c
        THEN writeRegisterAtAddress(m1, CAPP1188_RECALIBRATION_CONFIGURATION_REG, reg)
        ELSE I2Cdev_writeByte(m1, m1.this._i2cAddress,
                              CAPP1188_RECALIBRATION_CONFIGURATION_REG, reg)

\* lines 527-537: the one threshold register the method writes
setSensorInputThresholdAll_writeInput1(m, threshold) ==
    IF ~m.this._i2c
    THEN writeRegisterAtAddress(m, CAP1188_SENSOR_INPUT_1_THRESHOLD_REG, threshold)
    ELSE I2Cdev_writeByte(m, m.this._i2cAddress,
                          CAP1188_SENSOR_INPUT_1_THRESHOLD_REG, threshold)

\* the closing block writing B7 alone, without reading the register back
setSensorInputThresholdAll_setB7_blind(m) ==
    IF ~m.this._i2c
    THEN writeRegisterAtAddress(m, CAPP1188_RECALIBRATION_CONFIGURATION_REG, \H80)
    ELSE I2Cdev_writeByte(m, m.this._i2cAddress,
                          CAPP1188_RECALIBRATION_CONFIGURATION_REG, \H80)

\* lines 539-564: read the recalibration configuration, set B7, write back
setSensorInputThresholdAll_setB7(m) ==
    LET m1 == IF ~m.this._i2c
              THEN readRegisterFromAddress(m, CAPP1188_RECALIBRATION_CONFIGURATION_REG)
              ELSE I2Cdev_readByte(m, m.this._i2cAddress,
                                   CAPP1188_RECALIBRATION_CONFIGURATION_REG)
        reg == BitOr(m1.ret, \H80)
    IN  IF ~m1.this._i2c
        THEN writeRegisterAtAddress(m1, CAPP1188_RECALIBRATION_CONFIGURATION_REG, reg)
        ELSE I2Cdev_writeByte(m1, m1.this._i2cAddress,
                              CAPP1188_RECALIBRATION_CONFIGURATION_REG, reg)

\* The three blocks in source order; "return 0" in a function returning bool
\* is false.
setSensorInputThresholdAll(m, threshold) ==
    [setSensorInputThresholdAll_setB7(
         setSensorInputThresholdAll_writeInput1(
             setSensorInputThresholdAll_clearB7(m), threshold))
       EXCEPT !.ret = FALSE]

----------------------------------------------------------------------------
(* State machine: one action per public call, run to completion *)

\* The machine a call starts from.  md is the transport the chip is strapped
\* for; idle is what an undriven data line reads as.  The I2C bus works
\* (fault is FALSE) unless the call is started with BeginOnFault.
Begin(md, idle) ==
    [this |-> this, mode |-> md, regs |-> regs, ptr |-> ptr, win |-> win,
     pins |-> pins, idle |-> idle, snap |-> regs, trace |-> <<>>, acc |-> <<>>,
     ret |-> 0, fault |-> FALSE, junk |-> 0]

\* The machine of a call during which no I2C transfer completes; junk is the
\* byte an uninitialised local of the call happens to hold.
BeginOnFault(md, junk) == [Begin(md, \HFF) EXCEPT !.fault = TRUE, !.junk = junk]

\* A single caller, every call run to completion before the next.
Sequential == [lock |-> FALSE, owner |-> "none", pc |-> "idle", keys |-> 0, cur |-> 0]

Store(m, op, args, before, n) ==
    /\ this' = m.this
    /\ mode' = m.mode
    /\ regs' = m.regs
    /\ ptr' = m.ptr
    /\ win' = m.win
    /\ pins' = m.pins
    /\ call' = Call(op, args, m.ret)
    /\ trace' = m.trace
    /\ acc' = m.acc
    /\ pre' = m.snap
    /\ prev' = before
    /\ nops' = n

Commit(m, op, args, before, n) ==
    /\ Store(m, op, args, before, n)
    /\ sched' = sched

\* CAP1188::CAP1188(){} leaves every field of the object indeterminate; the
\* output latches of the pins are whatever the board powered up with.
Init ==
    /\ this \in [_i2c : BOOLEAN, _i2cAddress : I2CAddrs, _resetPin : Pins, _csPin : Pins]
    /\ mode = "none"
    /\ regs = ResetDefaults
    /\ ptr = 0
    /\ win = <<>>
    /\ pins \in [Pins -> {LOW, HIGH}]
    /\ call = [op |-> "CAP1188", args |-> <<>>, ret |-> 0]
    /\ trace = <<>>
    /\ acc = <<>>
    /\ pre = ResetDefaults
    /\ prev = [op |-> "CAP1188", args |-> <<>>, ret |-> 0]
    /\ nops = 0
    /\ sched = Sequential

\* Calls other than the two init calls need an initialised handle.
Ready == mode # "none" /\ nops < MaxOps

\* What the SPI data line reads as when no chip drives it.
IdleLevels == { \H00, \HFF }

NoCall == Call("CAP1188", <<>>, 0)

InitI2C(AD, RP) ==
    \E address \in AD, resetPin \in RP :
        /\ address \in I2CAddrs
        /\ Commit(initI2C(Begin("I2C", \HFF), address, resetPin),
                  "initI2C", <<address, resetPin>>, NoCall, 0)

\* The chip-select and the reset line are two different pins of the board.
InitSPI(CP, RP) ==
    \E csPin \in CP, resetPin \in RP :
        /\ csPin # resetPin
        /\ Commit(initSPI(Begin("SPI", \HFF), csPin, resetPin),
                  "initSPI", <<csPin, resetPin>>, NoCall, 0)

ReadRegisterFromAddress(A) ==
    /\ Ready
    /\ \E regAddress \in A, idle \in IdleLevels :
        Commit(readRegisterFromAddress(Begin(mode, idle), regAddress),
               "readRegisterFromAddress", <<regAddress>>, call, nops + 1)

WriteRegisterAtAddress(A, D) ==
    /\ Ready
    /\ \E regAddress \in A, data \in D :
        Commit(writeRegisterAtAddress(Begin(mode, \HFF), regAddress, data),
               "writeRegisterAtAddress", <<regAddress, data>>, call, nops + 1)

\* The test bench loads a register of the simulated register file (a touch
\* latching the status register, a host having configured main control).
Preload(A, D) ==
    /\ Ready
    /\ \E a \in A, v \in D :
        /\ regs' = [regs EXCEPT ![a] = v]
        /\ call' = Call("preload", <<a, v>>, 0)
        /\ trace' = <<>>
        /\ acc' = <<>>
        /\ pre' = regs
        /\ prev' = call
        /\ UNCHANGED <<this, mode, ptr, win, pins, nops, sched>>

GetSensorInputs ==
    /\ Ready
    /\ Commit(getSensorInputs(Begin(mode, \HFF)), "getSensorInputs", <<>>, call, nops + 1)

SetMultipleTouchConfiguration(N) ==
    /\ Ready
    /\ \E multipleTouchCircuitryEnable \in BOOLEAN, numberOfSimultaneousTouches \in N :
        Commit(setMultipleTouchConfiguration(Begin(mode, \HFF), multipleTouchCircuitryEnable,
                                             numberOfSimultaneousTouches),
               "setMultipleTouchConfiguration",
               <<multipleTouchCircuitryEnable, numberOfSimultaneousTouches>>, call, nops + 1)

SetSensorInputLEDLinking(D) ==
    /\ Ready
    /\ \E ledsToLink \in D :
        Commit(setSensorInputLEDLinking(Begin(mode, \HFF), ledsToLink),
               "setSensorInputLEDLinking", <<ledsToLink>>, call, nops + 1)

SetSensorInputThreshold(C, D) ==
    /\ Ready
    /\ \E buttonNumber \in C, threshold \in D :
        Commit(setSensorInputThreshold(Begin(mode, \HFF), buttonNumber, threshold),
               "setSensorInputThreshold", <<buttonNumber, threshold>>, call, nops + 1)

GetSensorInputThreshold(C) ==
    /\ Ready
    /\ \E buttonNumber \in C :
        Commit(getSensorInputThreshold(Begin(mode, \HFF), buttonNumber),
               "getSensorInputThreshold", <<buttonNumber>>, call, nops + 1)

GetProductId ==
    /\ Ready
    /\ Commit(getProductId(Begin(mode, \HFF)), "getProductId", <<>>, call, nops + 1)

GetManufacturerId ==
    /\ Ready
    /\ Commit(getManufacturerId(Begin(mode, \HFF)), "getManufacturerId", <<>>, call, nops + 1)

GetRevision ==
    /\ Ready
    /\ Commit(getRevision(Begin(mode, \HFF)), "getRevision", <<>>, call, nops + 1)

\* Option values of CAP1188.h and one value that does not fit its bit field.
AvgSums == {0, 1}
SamplesPerMeasurement == {0, 5, 7, 8}
SamplingTimes == {0, 2, 3, 4}
CycleTimes == {0, 1, 3}

SetStandbyConfiguration(AS, SP, ST, CT) ==
    /\ Ready
    /\ \E averageSum \in AS, samplesPerMeasurement \in SP, samplingTime \in ST,
          cycleTime \in CT :
        Commit(setStandbyConfiguration(Begin(mode, \HFF), averageSum,
                                       samplesPerMeasurement, samplingTime, cycleTime),
               "setStandbyConfiguration",
               <<averageSum, samplesPerMeasurement, samplingTime, cycleTime>>,
               call, nops + 1)

GetStandbyConfiguration ==
    /\ Ready
    /\ Commit(getStandbyConfiguration(Begin(mode, \HFF)), "getStandbyConfiguration",
              <<>>, call, nops + 1)

SetAveragingAndSamplingConfig(SP, ST, CT) ==
    /\ Ready
    /\ \E samplesPerMeasurement \in SP, samplingTime \in ST, cycleTime \in CT :
        Commit(setAveragingAndSamplingConfig(Begin(mode, \HFF), samplesPerMeasurement,
                                             samplingTime, cycleTime),
               "setAveragingAndSamplingConfig",
               <<samplesPerMeasurement, samplingTime, cycleTime>>, call, nops + 1)

GetAveragingAndSamplingConfig ==
    /\ Ready
    /\ Commit(getAveragingAndSamplingConfig(Begin(mode, \HFF)),
              "getAveragingAndSamplingConfig", <<>>, call, nops + 1)

SetSensorInputThresholdAll(D) ==
    /\ Ready
    /\ \E threshold \in D :
        Commit(setSensorInputThresholdAll(Begin(mode, \HFF), threshold),
               "setSensorInputThresholdAll", <<threshold>>, call, nops + 1)

\* The same two calls while the I2C bus is out of order.
SetSensorInputLEDLinkingOnFault(D) ==
    /\ Ready
    /\ mode = "I2C"
    /\ \E ledsToLink \in D, junk \in Data :
        Commit(setSensorInputLEDLinking(BeginOnFault(mode, junk), ledsToLink),
               "setSensorInputLEDLinking", <<ledsToLink>>, call, nops + 1)

GetProductIdOnFault ==
    /\ Ready
    /\ mode = "I2C"
    /\ \E junk \in Data :
        Commit(getProductId(BeginOnFault(mode, junk)), "getProductId", <<>>, call, nops + 1)

\* Two callers share the handle.  One runs getSensorInputs, a register
\* primitive at a time; the other writes main control.  When the callers
\* follow the locking discipline (sched.lock) an operation starts only while
\* nobody holds the lock and holds it until it returns.
InitConc ==
    /\ this \in [_i2c : BOOLEAN, _i2cAddress : I2CAddrs, _resetPin : Pins, _csPin : Pins]
    /\ mode = "none"
    /\ regs = ResetDefaults
    /\ ptr = 0
    /\ win = <<>>
    /\ pins \in [Pins -> {LOW, HIGH}]
    /\ call = NoCall
    /\ trace = <<>>
    /\ acc = <<>>
    /\ pre = ResetDefaults
    /\ prev = NoCall
    /\ nops = 0
    /\ sched \in [lock : BOOLEAN, owner : {"none"}, pc : {"idle"}, keys : {0}, cur : {0}]

ConcInitSPI ==
    /\ sched.pc = "idle"
    /\ InitSPI({5}, {4})

ConcPreload ==
    /\ sched.pc = "idle"
    /\ Preload({CAP1188_SENSOR_INPUT_STATUS_REG, CAP1188_MAIN_CONTROL_REG}, Data)

GetSensorInputs_Keys ==
    /\ Ready
    /\ sched.pc = "idle"
    /\ sched.lock => sched.owner = "none"
    /\ LET m == getSensorInputs_readKeys(Begin(mode, \HFF))
       IN  /\ Store(m, "getSensorInputs:keys", <<>>, call, nops + 1)
           /\ sched' = [sched EXCEPT !.keys = m.ret,
                                     !.pc = IF m.ret # 0 THEN "control" ELSE "idle",
                                     !.owner = IF sched.lock /\ m.ret # 0
                                               THEN "getSensorInputs" ELSE "none"]

GetSensorInputs_Control ==
    /\ sched.pc = "control"
    /\ LET m == getSensorInputs_readControl(Begin(mode, \HFF), sched.keys)
       IN  /\ Store(m, "getSensorInputs:control", <<>>, call, nops)
           /\ sched' = [sched EXCEPT !.cur = m.ret, !.pc = "clear"]

GetSensorInputs_Clear ==
    /\ sched.pc = "clear"
    /\ LET m == getSensorInputs_writeControl(Begin(mode, \HFF), sched.cur)
       IN  /\ Store([m EXCEPT !.ret = sched.keys], "getSensorInputs:clear", <<>>, call, nops)
           /\ sched' = [sched EXCEPT !.pc = "idle", !.owner = "none"]

\* The second caller's operation is a single register write, so it takes and
\* gives back the lock within the one step.
OtherCallerWrite(D) ==
    /\ Ready
    /\ mode = "SPI"
    /\ sched.lock => sched.owner = "none"
    /\ \E data \in D :
        /\ Store(writeRegisterAtAddress(Begin(mode, \HFF), CAP1188_MAIN_CONTROL_REG, data),
                 "writeRegisterAtAddress", <<CAP1188_MAIN_CONTROL_REG, data>>, call, nops + 1)
        /\ sched' = sched

\* Channel numbers passed by callers: the legal 1..8 and 0, 9, 255.
Channels == 0..9 \cup {255}

\* Simultaneous-touch counts passed by callers.
TouchCounts == 0..5 \cup {255}

NextReg ==
    \/ InitI2C(I2CAddrs, Pins)
    \/ InitSPI(Pins, Pins)
    \/ ReadRegisterFromAddress(RawAddrs)
    \/ WriteRegisterAtAddress(RawAddrs, Data)

SpecReg == Init /\ [][NextReg]_vars

NextInputs ==
    \/ InitI2C(I2CAddrs, Pins)
    \/ InitSPI(Pins, Pins)
    \/ Preload({CAP1188_SENSOR_INPUT_STATUS_REG, CAP1188_MAIN_CONTROL_REG}, Data)
    \/ GetSensorInputs

SpecInputs == Init /\ [][NextInputs]_vars

NextThr ==
    \/ InitI2C({CAP1188_I2C_ADDRESS_82K}, {4})
    \/ InitSPI({5}, {4})
    \/ SetSensorInputThreshold(Channels, Data)
    \/ GetSensorInputThreshold(Channels)

SpecThr == Init /\ [][NextThr]_vars

NextThrAll ==
    \/ InitI2C({CAP1188_I2C_ADDRESS_82K}, {4})
    \/ InitSPI({5}, {4})
    \/ SetSensorInputThresholdAll(Data)
    \/ GetSensorInputThreshold(1..8)

SpecThrAll == Init /\ [][NextThrAll]_vars

NextCfg ==
    \/ InitI2C(I2CAddrs, Pins)
    \/ InitSPI(Pins, Pins)
    \/ SetMultipleTouchConfiguration(TouchCounts)
    \/ SetSensorInputLEDLinking(Data)

SpecCfg == Init /\ [][NextCfg]_vars

NextAll ==
    \/ InitI2C(I2CAddrs, Pins)
    \/ InitSPI(Pins, Pins)
    \/ ReadRegisterFromAddress(RawAddrs)
    \/ WriteRegisterAtAddress(RawAddrs, { \H7A })
    \/ Preload({CAP1188_SENSOR_INPUT_STATUS_REG}, { \H05 })
    \/ GetSensorInputs
    \/ SetMultipleTouchConfiguration({0, 4})
    \/ SetSensorInputLEDLinking({ \H05 })
    \/ SetSensorInputThreshold({0, 1, 8}, { \H05 })
    \/ GetSensorInputThreshold({1, 9})
    \/ SetSensorInputThresholdAll({ \H05 })
    \/ SetStandbyConfiguration({1}, {5}, {2}, {3})
    \/ GetStandbyConfiguration
    \/ SetAveragingAndSamplingConfig({7}, {3}, {1})
    \/ GetAveragingAndSamplingConfig
    \/ GetProductId
    \/ GetManufacturerId
    \/ GetRevision

Spec == Init /\ [][NextAll]_vars

NextId ==
    \/ InitI2C({CAP1188_I2C_ADDRESS_VDD}, {4})
    \/ InitSPI({5}, {4})
    \/ Preload({CAP1188_PRODUCT_ID_REG, CAP1188_MANUFACTURER_ID_REG, CAP1188_REVISION_REG},
               Data)
    \/ GetProductId
    \/ GetManufacturerId
    \/ GetRevision

SpecId == Init /\ [][NextId]_vars

NextConc ==
    \/ ConcInitSPI
    \/ ConcPreload
    \/ GetSensorInputs_Keys
    \/ GetSensorInputs_Control
    \/ GetSensorInputs_Clear
    \/ OtherCallerWrite(Data)

SpecConc == InitConc /\ [][NextConc]_vars

NextRecal ==
    \/ InitI2C({CAP1188_I2C_ADDRESS_82K}, {4})
    \/ InitSPI({5}, {4})
    \/ Preload({CAPP1188_RECALIBRATION_CONFIGURATION_REG, CAP1188_SENSOR_INPUT_2_THRESHOLD_REG},
               Data)
    \/ SetSensorInputThresholdAll(Data)

SpecRecal == Init /\ [][NextRecal]_vars

NextFresh ==
    \/ InitI2C({CAP1188_I2C_ADDRESS_VDD}, {4})
    \/ InitSPI({5}, {4})
    \/ Preload({CAP1188_SENSOR_INPUT_1_THRESHOLD_REG, CAP1188_PRODUCT_ID_REG}, Data)
    \/ ReadRegisterFromAddress({CAP1188_SENSOR_INPUT_1_THRESHOLD_REG})
    \/ SetSensorInputThreshold({1}, Data)
    \/ GetSensorInputThreshold({1, 8})
    \/ GetSensorInputs
    \/ GetStandbyConfiguration
    \/ GetAveragingAndSamplingConfig
    \/ GetProductId

SpecFresh == Init /\ [][NextFresh]_vars

\* Both configuration pairs, on option values of CAP1188.h only: the lowest
\* and the highest code of every field, and one in between for the widest.
NextPack ==
    \/ InitI2C({CAP1188_I2C_ADDRESS_VDD}, {4})
    \/ InitSPI({5}, {4})
    \/ SetStandbyConfiguration({0, 1}, {0, 5, 7}, {0, 3}, {0, 2})
    \/ GetStandbyConfiguration
    \/ SetAveragingAndSamplingConfig({0, 2, 7}, {1, 3}, {0, 3})
    \/ GetAveragingAndSamplingConfig

SpecPack == Init /\ [][NextPack]_vars

NextFault ==
    \/ InitI2C(I2CAddrs, Pins)
    \/ InitSPI(Pins, Pins)
    \/ SetSensorInputLEDLinking(Data)
    \/ GetProductId
    \/ SetSensorInputLEDLinkingOnFault(Data)
    \/ GetProductIdOnFault

SpecFault == Init /\ [][NextFault]_vars

----------------------------------------------------------------------------
(* Vocabulary of the properties *)

DW(pin, val) == Ev("digitalWrite", pin, val, <<>>)
SpiOut(bytes) == Ev("spiOut", 0, 0, bytes)
SpiIn(bytes) == Ev("spiIn", 0, 0, bytes)

PinMode(pin) == Ev("pinMode", pin, 0, <<>>)
RegR(addr, val) == Access("r", addr, val)
RegW(addr, val) == Access("w", addr, val)

OnSPI == mode = "SPI"
OnI2C == mode = "I2C"

\* The SPI side of a trace: chip-select edges and byte shifts.
SpiEvents(tr, cs) ==
    SelectSeq(tr, LAMBDA e : \/ e.kind \in {"spiOut", "spiIn"}
                             \/ (e.kind = "digitalWrite" /\ e.a = cs))

\* The four commands of the chip, by op-code.
IsCommand(bytes) ==
    \/ bytes = << \H7A, \H7A >>
    \/ (Len(bytes) = 2 /\ bytes[1] = \H7D)
    \/ (Len(bytes) = 2 /\ bytes[1] = \H7E)
    \/ bytes = << \H7F >>

\* s is a sequence of chip-select windows, each holding one command (and,
\* for the read command, its one reply byte), with no shift outside a window.
RECURSIVE Framed(_, _)
Framed(s, cs) ==
    \/ s = <<>>
    \/ /\ Len(s) >= 3
       /\ s[1] = DW(cs, LOW)
       /\ s[2].kind = "spiOut"
       /\ IsCommand(s[2].bytes)
       /\ IF s[2].bytes = << \H7F >>
          THEN /\ Len(s) >= 4
               /\ s[3].kind = "spiIn"
               /\ Len(s[3].bytes) = 1
               /\ s[4] = DW(cs, HIGH)
               /\ Framed(SubSeq(s, 5, Len(s)), cs)
          ELSE /\ s[3] = DW(cs, HIGH)
               /\ Framed(SubSeq(s, 4, Len(s)), cs)

IsBusEvent(e) == e.kind \in {"spiOut", "spiIn", "i2cRead", "i2cWrite"}

ThresholdRegOf(c) ==
    << CAP1188_SENSOR_INPUT_1_THRESHOLD_REG, CAP1188_SENSOR_INPUT_2_THRESHOLD_REG,
       CAP1188_SENSOR_INPUT_3_THRESHOLD_REG, CAP1188_SENSOR_INPUT_4_THRESHOLD_REG,
       CAP1188_SENSOR_INPUT_5_THRESHOLD_REG, CAP1188_SENSOR_INPUT_6_THRESHOLD_REG,
       CAP1188_SENSOR_INPUT_7_THRESHOLD_REG, CAP1188_SENSOR_INPUT_8_THRESHOLD_REG >>[c]

----------------------------------------------------------------------------
(* Properties *)

\* C1: on an SPI-initialised handle a register read of addr emits exactly
\* two chip-select-framed transactions and nothing else: CS low, {0x7D, addr},
\* CS high; then CS low, {0x7F} with exactly one reply byte captured, CS high;
\* and the captured byte is the value returned.
C1_ReadIsTwoFrames ==
    (OnSPI /\ call.op = "readRegisterFromAddress") =>
        LET cs == this._csPin
            addr == call.args[1]
        IN  /\ Len(trace) = 7
            /\ trace[1] = DW(cs, LOW)
            /\ trace[2] = SpiOut(<< \H7D, addr >>)
            /\ trace[3] = DW(cs, HIGH)
            /\ trace[4] = DW(cs, LOW)
            /\ trace[5] = SpiOut(<< \H7F >>)
            /\ trace[6].kind = "spiIn"
            /\ Len(trace[6].bytes) = 1
            /\ trace[7] = DW(cs, HIGH)
            /\ call.ret = trace[6].bytes[1]

\* C1 witness: an SPI read that brings back a byte written before.
C1_Witness ==
    /\ OnSPI
    /\ call.op = "readRegisterFromAddress"
    /\ prev.op = "writeRegisterAtAddress"
    /\ prev.args[1] = call.args[1]
    /\ call.ret = \H05

\* C2: on an SPI-initialised handle a register write of (addr, data) emits
\* exactly two transactions, each in its own chip-select frame, in this
\* order: {0x7D, addr} then {0x7E, data}; nothing is captured and there is
\* no other frame.
C2_WriteIsTwoFrames ==
    (OnSPI /\ call.op = "writeRegisterAtAddress") =>
        LET cs == this._csPin
            addr == call.args[1]
            data == call.args[2]
        IN  trace = << DW(cs, LOW), SpiOut(<< \H7D, addr >>), DW(cs, HIGH),
                       DW(cs, LOW), SpiOut(<< \H7E, data >>), DW(cs, HIGH) >>

\* C2 witness: an SPI write whose address and data bytes are op-code values.
C2_Witness ==
    /\ OnSPI
    /\ call.op = "writeRegisterAtAddress"
    /\ call.args = << \H7A, \H7A >>
    /\ regs[\H7A] = \H7A

\* C3: on an SPI handle, whatever was called, bytes are shifted only inside
\* a chip-select-low window, every window carries exactly one command that
\* starts with its op-code (0x7A, 0x7D, 0x7E or 0x7F), never two, and
\* chip-select is back high when the call returns.
C3_OneCommandPerWindow ==
    OnSPI => /\ Framed(SpiEvents(trace, this._csPin), this._csPin)
             /\ pins[this._csPin] = HIGH

\* C3 witness: the longest SPI call, getSensorInputs with a key latched
\* (three register accesses, six windows).
C3_Witness ==
    /\ OnSPI
    /\ call.op = "getSensorInputs"
    /\ call.ret # 0
    /\ Len(SpiEvents(trace, this._csPin)) = 20

\* C4: for a non-zero sensor-input status s and main-control value m, on
\* either transport, getSensorInputs returns s and, after the status read,
\* reads main control once and then writes it once, the written value being
\* m with bit 0 cleared and bits 1..7 as in m.
C4_InputsThenClearInterrupt ==
    (call.op = "getSensorInputs" /\ pre[CAP1188_SENSOR_INPUT_STATUS_REG] # 0) =>
        LET s == pre[CAP1188_SENSOR_INPUT_STATUS_REG]
            mc == pre[CAP1188_MAIN_CONTROL_REG]
        IN  /\ call.ret = s
            /\ Len(acc) = 3
            /\ acc[1] = RegR(CAP1188_SENSOR_INPUT_STATUS_REG, s)
            /\ acc[2] = RegR(CAP1188_MAIN_CONTROL_REG, mc)
            /\ acc[3].rw = "w"
            /\ acc[3].addr = CAP1188_MAIN_CONTROL_REG
            /\ Bit(acc[3].val, 0) = 0
            /\ \A i \in 1..7 : Bit(acc[3].val, i) = Bit(mc, i)
            /\ regs[CAP1188_MAIN_CONTROL_REG] = acc[3].val

\* C4 witness: status 0x05 with the interrupt bit set in main control.
C4_Witness ==
    /\ call.op = "getSensorInputs"
    /\ pre[CAP1188_SENSOR_INPUT_STATUS_REG] = \H05
    /\ pre[CAP1188_MAIN_CONTROL_REG] = \H05
    /\ regs[CAP1188_MAIN_CONTROL_REG] = \H04

\* C5: when the sensor-input status reads 0x00, getSensorInputs returns 0x00
\* and its only register access is that status read: main control is neither
\* read nor written and the register file is unchanged.
C5_NoTouchNoClear ==
    (call.op = "getSensorInputs" /\ pre[CAP1188_SENSOR_INPUT_STATUS_REG] = 0) =>
        /\ call.ret = 0
        /\ acc = << RegR(CAP1188_SENSOR_INPUT_STATUS_REG, 0) >>
        /\ regs = pre
        /\ Len(SelectSeq(trace, IsBusEvent)) = IF OnSPI THEN 3 ELSE 1

\* C5 witness: no key latched while the interrupt bit of main control is set.
C5_Witness ==
    /\ call.op = "getSensorInputs"
    /\ pre[CAP1188_SENSOR_INPUT_STATUS_REG] = 0
    /\ regs[CAP1188_MAIN_CONTROL_REG] = \H05

\* C6: for every channel c in 1..8, byte v and either transport,
\* setSensorInputThreshold(c, v) changes the threshold register of channel c
\* to v and no other register, and a getSensorInputThreshold(c) that follows
\* it returns v.
C6_ThresholdRoundTrip ==
    /\ (call.op = "setSensorInputThreshold" /\ call.args[1] \in 1..8) =>
            /\ regs[ThresholdRegOf(call.args[1])] = call.args[2]
            /\ \A a \in RegAddrs \ {ThresholdRegOf(call.args[1])} : regs[a] = pre[a]
    /\ (/\ call.op = "getSensorInputThreshold"
        /\ prev.op = "setSensorInputThreshold"
        /\ call.args[1] \in 1..8
        /\ prev.args[1] = call.args[1]) =>
            call.ret = prev.args[2]

\* C6 witness: channel 3 set to 0x05 and read back.
C6_Witness ==
    /\ call.op = "getSensorInputThreshold"
    /\ prev.op = "setSensorInputThreshold"
    /\ call.args[1] = 3
    /\ prev.args = << 3, \H05 >>
    /\ call.ret = \H05

\* C7: for a channel number outside 1..8 and any threshold,
\* setSensorInputThreshold returns false and performs no hardware
\* transaction: no I2C transfer, no pin change, no SPI byte, register file
\* unchanged.
C7_SetThresholdRejectsChannel ==
    (call.op = "setSensorInputThreshold" /\ call.args[1] \notin 1..8) =>
        /\ call.ret = FALSE
        /\ trace = <<>>
        /\ acc = <<>>
        /\ regs = pre

\* C7 witness: channel 0 rejected.
C7_Witness ==
    /\ call.op = "setSensorInputThreshold"
    /\ call.args[1] = 0
    /\ call.ret = FALSE

\* C8: for a channel number outside 1..8, getSensorInputThreshold performs no
\* hardware transaction and its result can be told apart from the result of
\* a successful threshold read on a valid channel.
C8_GetThresholdReportsChannel ==
    (call.op = "getSensorInputThreshold" /\ call.args[1] \notin 1..8) =>
        /\ trace = <<>>
        /\ acc = <<>>
        /\ \A c \in 1..8 : regs[ThresholdRegOf(c)] # call.ret

\* C9: initI2C and initSPI drive the reset pin high, wait at least 10 ms and
\* drive it low before any register access; initSPI then sends the framed
\* {0x7A, 0x7A} command exactly once, after the reset pin went low and before
\* any other SPI command; no other call sends the 0x7A command.
C9_ResetPulseThenInterfaceReset ==
    LET rp == this._resetPin
        cs == this._csPin
        n == Len(trace)
        resets == { i \in 1..n : trace[i].kind = "spiOut" /\ trace[i].bytes[1] = \H7A }
    IN  /\ call.op \in {"initI2C", "initSPI"} =>
            \E i \in 1..n, k \in 1..n :
                /\ i + 2 = k
                /\ trace[i] = DW(rp, HIGH)
                /\ trace[i + 1].kind = "delay"
                /\ trace[i + 1].a >= 10
                /\ trace[k] = DW(rp, LOW)
                /\ \A j \in 1..n : IsBusEvent(trace[j]) => j > k
                /\ \A j \in 1..n : (trace[j].kind = "digitalWrite" /\ trace[j].a = rp)
                                        => j \in {i, k}
                /\ call.op = "initSPI" =>
                        \E f \in 1..n :
                            /\ f > k
                            /\ resets = {f + 1}
                            /\ trace[f] = DW(cs, LOW)
                            /\ trace[f + 1] = SpiOut(<< \H7A, \H7A >>)
                            /\ trace[f + 2] = DW(cs, HIGH)
                            /\ \A j \in 1..n : trace[j].kind \in {"spiOut", "spiIn"}
                                                    => j >= f + 1
        /\ call.op # "initSPI" => resets = {}

\* C9 witness: initSPI has run and left its default configuration.
C9_Witness ==
    /\ call.op = "initSPI"
    /\ Len(trace) > 8
    /\ regs[CAP1188_SENSOR_INPUT_LED_LINKING_REG] = \HFF

\* C10: setMultipleTouchConfiguration(false, n) writes 0x00 to the
\* multi-touch configuration register for every n and returns true;
\* setMultipleTouchConfiguration(true, n) for n in 1..4 writes exactly one
\* byte, 0x80 | ((n-1) << 2) (128, 132, 136, 140), there and returns true.
C10_MultipleTouchCodes ==
    (call.op = "setMultipleTouchConfiguration") =>
        LET enable == call.args[1]
            cnt == call.args[2]
        IN  /\ ~enable =>
                /\ call.ret = TRUE
                /\ acc = << RegW(CAP1188_MULTIPLE_TOUCH_CONFIGURATION_REG, 0) >>
                /\ regs[CAP1188_MULTIPLE_TOUCH_CONFIGURATION_REG] = 0
            /\ (enable /\ cnt \in 1..4) =>
                /\ call.ret = TRUE
                /\ acc = << RegW(CAP1188_MULTIPLE_TOUCH_CONFIGURATION_REG,
                                 BitOr(128, (cnt - 1) * 4)) >>
                /\ regs[CAP1188_MULTIPLE_TOUCH_CONFIGURATION_REG]
                        = << 128, 132, 136, 140 >>[cnt]
                /\ Len(SelectSeq(trace, LAMBDA e : e.kind \in {"i2cWrite", "spiOut"}))
                        = IF OnSPI THEN 2 ELSE 1

\* C10 witness: three simultaneous touches enabled.
C10_Witness ==
    /\ call.op = "setMultipleTouchConfiguration"
    /\ call.args = << TRUE, 3 >>
    /\ regs[CAP1188_MULTIPLE_TOUCH_CONFIGURATION_REG] = 136

\* C11: setMultipleTouchConfiguration(true, n) with n outside 1..4 (0 and
\* 5..255) returns false and performs no hardware transaction on either
\* transport: no pin change, no SPI byte, no I2C transfer, and the register
\* file (the multi-touch configuration register included) is unchanged.
C11_MultipleTouchRejectsCount ==
    (/\ call.op = "setMultipleTouchConfiguration"
     /\ call.args[1] = TRUE
     /\ call.args[2] \notin 1..4) =>
        /\ call.ret = FALSE
        /\ trace = <<>>
        /\ acc = <<>>
        /\ regs = pre
        /\ regs[CAP1188_MULTIPLE_TOUCH_CONFIGURATION_REG]
                = pre[CAP1188_MULTIPLE_TOUCH_CONFIGURATION_REG]

\* C11 witness: count 5 rejected after the register was set for 4 touches.
C11_Witness ==
    /\ call.op = "setMultipleTouchConfiguration"
    /\ call.args = << TRUE, 5 >>
    /\ call.ret = FALSE
    /\ prev.op = "setMultipleTouchConfiguration"
    /\ prev.args = << TRUE, 4 >>
    /\ regs[CAP1188_MULTIPLE_TOUCH_CONFIGURATION_REG] = 140

\* The largest simultaneous-touch count setMultipleTouchConfiguration accepts.
MaxSimultaneousTouches == 4

\* C12: when initI2C or initSPI returns, the default configuration has been
\* applied after the reset pulse: the multi-touch configuration register
\* holds what setMultipleTouchConfiguration(true, maximum count) writes
\* there, the LED-linking register holds 0xFF, and these two writes, in this
\* order, are the only register accesses of the initialisation.
C12_InitAppliesDefaults ==
    (call.op \in {"initI2C", "initSPI"}) =>
        LET code == setMultipleTouchConfiguration(Begin(mode, \HFF), TRUE,
                        MaxSimultaneousTouches).regs[CAP1188_MULTIPLE_TOUCH_CONFIGURATION_REG]
        IN  /\ regs[CAP1188_MULTIPLE_TOUCH_CONFIGURATION_REG] = code
            /\ regs[CAP1188_SENSOR_INPUT_LED_LINKING_REG] = \HFF
            /\ acc = << RegW(CAP1188_MULTIPLE_TOUCH_CONFIGURATION_REG, code),
                        RegW(CAP1188_SENSOR_INPUT_LED_LINKING_REG, \HFF) >>

IsSpiEvent(e) == e.kind \in {"spiOut", "spiIn"}
IsI2CEvent(e) == e.kind \in {"i2cRead", "i2cWrite"}

\* C13: readRegisterFromAddress and writeRegisterAtAddress dispatch on the
\* transport of the handle: after initI2C each call performs exactly one I2C
\* transaction, with the stored _i2cAddress and the given register address,
\* and shifts no SPI byte; after initSPI each call performs exactly two
\* chip-select-framed SPI commands and no I2C transaction.
C13_PrimitivesDispatch ==
    (call.op \in {"readRegisterFromAddress", "writeRegisterAtAddress"}) =>
        LET bus == SelectSeq(trace, IsBusEvent)
        IN  /\ OnI2C =>
                /\ Len(bus) = 1
                /\ bus[1].kind = IF call.op = "readRegisterFromAddress"
                                 THEN "i2cRead" ELSE "i2cWrite"
                /\ bus[1].a = this._i2cAddress
                /\ bus[1].b = call.args[1]
            /\ OnSPI =>
                /\ SelectSeq(trace, IsI2CEvent) = <<>>
                /\ Len(SelectSeq(trace, LAMBDA e : e.kind = "spiOut")) = 2
                /\ Framed(SpiEvents(trace, this._csPin), this._csPin)

\* The operations built on the register primitives.
SemanticOps ==
    { "getProductId", "getManufacturerId", "getRevision", "getSensorInputs",
      "setMultipleTouchConfiguration", "setSensorInputLEDLinking",
      "setStandbyConfiguration", "getStandbyConfiguration",
      "setAveragingAndSamplingConfig", "getAveragingAndSamplingConfig",
      "setSensorInputThreshold", "setSensorInputThresholdAll",
      "getSensorInputThreshold" }

\* One call, seen as a step: initI2C stores the address it was given; a
\* semantic operation leaves the handle as it was, on an I2C handle writes no
\* pin, shifts no SPI byte and addresses every I2C transaction to the stored
\* address, and on an SPI handle issues no I2C transaction.
C14_Step ==
    /\ call'.op = "initI2C" => this'._i2cAddress = call'.args[1]
    /\ call'.op \in SemanticOps =>
        /\ this' = this
        /\ mode' = mode
        /\ mode = "I2C" =>
            \A i \in 1..Len(trace') :
                /\ trace'[i].kind \notin {"digitalWrite", "pinMode", "spiOut", "spiIn"}
                /\ IsI2CEvent(trace'[i]) => trace'[i].a = this._i2cAddress
        /\ mode = "SPI" =>
            \A i \in 1..Len(trace') : ~IsI2CEvent(trace'[i])

\* C14: after initialisation no semantic operation uses the inactive
\* transport: an I2C handle never changes a chip-select level and never
\* shifts SPI bytes, an SPI handle never issues an I2C transaction, and every
\* I2C transaction of an I2C handle carries the address given to initI2C.
C14_InactiveTransportUnused == [][C14_Step]_vars

\* C14 witness: the second semantic operation on an I2C handle, a
\* getSensorInputs with a key latched (three I2C transactions), and every
\* transaction carries the address of the handle.
C14_Witness ==
    /\ OnI2C
    /\ nops = 2
    /\ call.op = "getSensorInputs"
    /\ prev.op \in SemanticOps
    /\ Len(trace) = 3
    /\ \A i \in 1..3 : IsI2CEvent(trace[i]) /\ trace[i].a = CAP1188_I2C_ADDRESS_VDD

\* C15: the transport tag (_i2c) is set exactly once: from the first initI2C
\* or initSPI on, no call of the public interface, a later initI2C or initSPI
\* included, changes it.
C15_TransportSetOnce ==
    [][mode # "none" => this'._i2c = this._i2c]_vars

\* A transfer primitive reported during the last call that it could not
\* complete.
TransferFailed ==
    \E i \in 1..Len(trace) : trace[i].kind \in {"i2cReadFailed", "i2cWriteFailed"}

\* C16: when a transfer primitive reported that it could not complete, the
\* operation that issued it reports the failure: an operation returning bool
\* does not return true, and an operation returning the byte read does not
\* hand a byte (stale, zero or uninitialised) to its caller.
C16_TransportFailurePropagates ==
    TransferFailed =>
        /\ call.op = "setSensorInputLEDLinking" => call.ret = FALSE
        /\ call.op = "getProductId" => call.ret \notin Byte

IdRegOf(op) ==
    CASE op = "getProductId" -> CAP1188_PRODUCT_ID_REG
      [] op = "getManufacturerId" -> CAP1188_MANUFACTURER_ID_REG
      [] op = "getRevision" -> CAP1188_REVISION_REG

\* C17: getProductId, getManufacturerId and getRevision each perform exactly
\* one register read, at the product-ID, manufacturer-ID and revision
\* register respectively, write no register, and return the byte that
\* register holds, on both transports (one I2C read transfer, or the two SPI
\* frames of a register read).
C17_IdentityQueries ==
    (call.op \in {"getProductId", "getManufacturerId", "getRevision"}) =>
        LET a == IdRegOf(call.op)
            cs == this._csPin
        IN  /\ acc = << RegR(a, pre[a]) >>
            /\ call.ret = pre[a]
            /\ regs = pre
            /\ OnI2C => trace = << Ev("i2cRead", this._i2cAddress, a, << pre[a] >>) >>
            /\ OnSPI => trace = << DW(cs, LOW), SpiOut(<< \H7D, a >>), DW(cs, HIGH),
                                   DW(cs, LOW), SpiOut(<< \H7F >>), SpiIn(<< pre[a] >>),
                                   DW(cs, HIGH) >>

\* C17 witness: the manufacturer id read over SPI while the three identity
\* registers hold three different bytes.
C17_Witness ==
    /\ OnSPI
    /\ call.op = "getManufacturerId"
    /\ call.ret = \H05
    /\ regs[CAP1188_PRODUCT_ID_REG] = \H50
    /\ regs[CAP1188_REVISION_REG] = \H7A

\* The registers a call is meant to access, in order.
Intended(c) ==
    CASE c.op \in {"readRegisterFromAddress", "writeRegisterAtAddress"} -> << c.args[1] >>
      [] c.op \in {"getProductId", "getManufacturerId", "getRevision"} -> << IdRegOf(c.op) >>
      [] c.op = "getSensorInputs" ->
            IF c.ret = 0 THEN << CAP1188_SENSOR_INPUT_STATUS_REG >>
            ELSE << CAP1188_SENSOR_INPUT_STATUS_REG, CAP1188_MAIN_CONTROL_REG,
                    CAP1188_MAIN_CONTROL_REG >>
      [] c.op = "setMultipleTouchConfiguration" ->
            IF c.args[1] /\ c.args[2] \notin 1..4 THEN << >>
            ELSE << CAP1188_MULTIPLE_TOUCH_CONFIGURATION_REG >>
      [] c.op = "setSensorInputLEDLinking" -> << CAP1188_SENSOR_INPUT_LED_LINKING_REG >>
      [] c.op \in {"setStandbyConfiguration", "getStandbyConfiguration"} ->
            << CAP1188_STANDBY_CONFIGURATION_REG >>
      [] c.op \in {"setAveragingAndSamplingConfig", "getAveragingAndSamplingConfig"} ->
            << CAP1188_AVERAGING_AND_SAMPLING_CONFIG_REG >>
      [] c.op \in {"setSensorInputThreshold", "getSensorInputThreshold"} ->
            IF c.args[1] \in 1..8 THEN << ThresholdRegOf(c.args[1]) >> ELSE << >>
      [] c.op = "setSensorInputThresholdAll" ->
            << CAPP1188_RECALIBRATION_CONFIGURATION_REG,
               CAPP1188_RECALIBRATION_CONFIGURATION_REG,
               CAP1188_SENSOR_INPUT_1_THRESHOLD_REG,
               CAPP1188_RECALIBRATION_CONFIGURATION_REG,
               CAPP1188_RECALIBRATION_CONFIGURATION_REG >>
      [] c.op \in {"initI2C", "initSPI"} ->
            << CAP1188_MULTIPLE_TOUCH_CONFIGURATION_REG,
               CAP1188_SENSOR_INPUT_LED_LINKING_REG >>
      [] OTHER -> << >>

\* A read-pointed (0x7F) or write-pointed (0x7E) command.
IsAccessFrame(e) == e.kind = "spiOut" /\ e.bytes[1] \in { \H7E, \H7F }

\* C18: on an SPI handle every 0x7F or 0x7E frame is immediately preceded by
\* the frame {0x7D, a}, a being the register that access of the call is meant
\* for, with no other SPI frame between the two; and the chip performs each
\* access at that register.
C18_PointerSetPrecedesAccess ==
    OnSPI =>
        LET frames == SelectSeq(trace, LAMBDA e : e.kind = "spiOut")
            want == Intended(call)
            nth(j) == Cardinality({ i \in 1..j : IsAccessFrame(frames[i]) })
        IN  /\ \A j \in 1..Len(frames) :
                IsAccessFrame(frames[j]) =>
                    /\ j > 1
                    /\ nth(j) <= Len(want)
                    /\ frames[j - 1].bytes = << \H7D, want[nth(j)] >>
            /\ Len(acc) = Len(want)
            /\ \A k \in 1..Len(acc) : acc[k].addr = want[k]

\* C18 witness: setSensorInputThresholdAll on an SPI handle, five accesses of
\* two different registers.
C18_Witness ==
    /\ OnSPI
    /\ call.op = "setSensorInputThresholdAll"
    /\ Len(acc) = 5
    /\ Len(SelectSeq(trace, IsAccessFrame)) = 5

\* C19: the interrupt-clear of getSensorInputs writes back the main-control
\* value it read with bit 0 cleared, whatever was written to the register in
\* between; when every operation runs under the one lock, the write-back
\* follows the read with no other call in between and main control differs
\* from what it held before the write in bit 0 only.  (Without the lock a
\* write of the second caller between the read and the write-back is lost:
\* the witness.)
C19_ClearAtomicUnderLock ==
    (call.op = "getSensorInputs:clear") =>
        /\ regs[CAP1188_MAIN_CONTROL_REG] = sched.cur
        /\ Bit(sched.cur, 0) = 0
        /\ sched.lock =>
            /\ prev.op = "getSensorInputs:control"
            /\ \A i \in 1..7 : Bit(regs[CAP1188_MAIN_CONTROL_REG], i)
                                    = Bit(pre[CAP1188_MAIN_CONTROL_REG], i)

\* C19 witness: without the lock, the second caller wrote 0x7A to main
\* control between the read and the write-back of getSensorInputs, and the
\* write-back has replaced it by the stale 0x05 with bit 0 cleared.
C19_Witness ==
    /\ ~sched.lock
    /\ call.op = "getSensorInputs:clear"
    /\ prev.op = "writeRegisterAtAddress"
    /\ prev.args = << CAP1188_MAIN_CONTROL_REG, \H7A >>
    /\ pre[CAP1188_MAIN_CONTROL_REG] = \H7A
    /\ regs[CAP1188_MAIN_CONTROL_REG] = \H04

\* C20: setSensorInputThresholdAll(t) writes t to all Sensor Input Threshold
\* registers: when it has returned every threshold register holds t, and a
\* getSensorInputThreshold(c) that follows returns t for every channel c in
\* 1..8.
C20_ThresholdAllSetsEveryChannel ==
    /\ (call.op = "setSensorInputThresholdAll") =>
            \A c \in 1..8 : regs[ThresholdRegOf(c)] = call.args[1]
    /\ (/\ call.op = "getSensorInputThreshold"
        /\ call.args[1] \in 1..8
        /\ prev.op = "setSensorInputThresholdAll") =>
            call.ret = prev.args[1]

\* C21: setSensorInputThresholdAll(t) performs exactly five register accesses,
\* in this order: read recalibration configuration (v), write it back with
\* bit 7 cleared, write t to the channel-1 threshold register, read
\* recalibration configuration again, write it back with bit 7 set.  The
\* threshold registers of channels 2..8 are left as they were, bits 0..6 of
\* recalibration configuration end as they were read, bit 7 ends set, and the
\* call returns false.
C21_ThresholdAllAccessSequence ==
    (call.op = "setSensorInputThresholdAll") =>
        LET v == pre[CAPP1188_RECALIBRATION_CONFIGURATION_REG]
            low == v % 128
            t == call.args[1]
        IN  /\ acc = << Access("r", CAPP1188_RECALIBRATION_CONFIGURATION_REG, v),
                        Access("w", CAPP1188_RECALIBRATION_CONFIGURATION_REG, low),
                        Access("w", CAP1188_SENSOR_INPUT_1_THRESHOLD_REG, t),
                        Access("r", CAPP1188_RECALIBRATION_CONFIGURATION_REG, low),
                        Access("w", CAPP1188_RECALIBRATION_CONFIGURATION_REG, low + 128) >>
            /\ \A c \in 2..8 : regs[ThresholdRegOf(c)] = pre[ThresholdRegOf(c)]
            /\ regs[CAPP1188_RECALIBRATION_CONFIGURATION_REG] = low + 128
            /\ call.ret = FALSE

\* C21 witness: the recalibration configuration held 0x05 (bit 7 clear) and
\* channel 2's threshold 0x7A when the call started; the call with t = 0 made
\* its five accesses and left 0x85 and 0x7A.
C21_Witness ==
    /\ call = Call("setSensorInputThresholdAll", << \H00 >>, FALSE)
    /\ pre[CAPP1188_RECALIBRATION_CONFIGURATION_REG] = \H05
    /\ regs[CAPP1188_RECALIBRATION_CONFIGURATION_REG] = \H85
    /\ regs[CAP1188_SENSOR_INPUT_1_THRESHOLD_REG] = \H00
    /\ regs[CAP1188_SENSOR_INPUT_2_THRESHOLD_REG] = \H7A
    /\ Len(acc) = 5

\* What a read operation hands back, as one byte: the returned byte itself or,
\* for the two configuration getters, the byte their fields were taken from.
ReturnedByte(c) ==
    CASE c.op = "getStandbyConfiguration" ->
            c.ret.averageSum * 128 + c.ret.samplesPerMeasurement * 16
            + c.ret.samplingTime * 4 + c.ret.cycleTime
      [] c.op = "getAveragingAndSamplingConfig" ->
            c.ret.samplesPerMeasurement * 16 + c.ret.samplingTime * 4 + c.ret.cycleTime
      [] OTHER -> c.ret

\* The byte the chip's register file held for the register a read operation
\* is about, when the operation ran (held is the register file then).
ChipByteFor(c, held) ==
    CASE c.op = "readRegisterFromAddress" -> held[c.args[1]]
      [] c.op = "getSensorInputThreshold" -> held[ThresholdRegOf(c.args[1])]
      [] c.op = "getSensorInputs" -> held[CAP1188_SENSOR_INPUT_STATUS_REG]
      [] c.op = "getStandbyConfiguration" -> held[CAP1188_STANDBY_CONFIGURATION_REG]
      [] c.op = "getAveragingAndSamplingConfig" ->
            held[CAP1188_AVERAGING_AND_SAMPLING_CONFIG_REG] % 128
      [] OTHER -> held[IdRegOf(c.op)]

IsRead(c) ==
    \/ c.op \in {"readRegisterFromAddress", "getSensorInputs", "getStandbyConfiguration",
                 "getAveragingAndSamplingConfig", "getProductId", "getManufacturerId",
                 "getRevision"}
    \/ c.op = "getSensorInputThreshold" /\ c.args[1] \in 1..8

C22_Step ==
    /\ call'.op \notin {"initI2C", "initSPI"} => this' = this
    /\ IsRead(call') => ReturnedByte(call') = ChipByteFor(call', pre')

\* C22: the handle caches no register value.  Every operation other than
\* initI2C / initSPI leaves the four handle fields unchanged, and every read
\* operation returns the byte the chip's register file holds when the
\* operation runs, so a read after the register changed on the chip returns
\* the new value.
C22_NoCachedRegister == [][C22_Step]_vars

\* The level of an output pin just before event i of a call's trace: what the
\* last digitalWrite to it before i left, or, if there is none, the level the
\* pin had when the call started.
LevelBefore(s, i, pin, atStart) ==
    LET writes == { j \in 1..(i - 1) : s[j].kind = "digitalWrite" /\ s[j].a = pin }
    IN  IF writes = {} THEN atStart
        ELSE s[CHOOSE j \in writes : \A k \in writes : k <= j].b

C23_Step ==
    (mode' = "SPI" /\ call' # call) =>
        LET cs == this'._csPin
        IN  /\ \A i \in 1..Len(trace') :
                   trace'[i] = DW(cs, LOW) => LevelBefore(trace', i, cs, pins[cs]) = HIGH
            /\ pins'[cs] = HIGH

\* C23: on an SPI handle chip-select is high whenever no command is in
\* progress.  Every assertion of chip-select (each SPI command starts with
\* one), the one of the reset-interface command inside initSPI included,
\* finds the pin high, and the pin is high when a public operation has
\* returned.
C23_ChipSelectIdlesHigh == [][C23_Step]_vars

C24_Step ==
    (mode' # "none" /\ call' # call) =>
        LET rst == this'._resetPin
        IN  /\ pins'[rst] = LOW
            /\ call'.op \notin {"initI2C", "initSPI"} =>
                   \A i \in 1..Len(trace') :
                       ~(trace'[i].kind = "digitalWrite" /\ trace'[i].a = rst)

\* C24: the reset pin is driven only by initI2C and initSPI.  Once an
\* initialisation has returned the reset pin is low, and no later get/set or
\* register operation writes to it, so it stays low and the chip is not reset
\* again.
C24_ResetPinOnlyInInit == [][C24_Step]_vars

InFieldRange(args) ==
    LET n == Len(args)
    IN  /\ n = 4 => args[1] \in 0..1
        /\ args[n - 2] \in 0..7
        /\ args[n - 1] \in 0..3
        /\ args[n] \in 0..3

\* C25: for field values that fit their bit fields (averageSum 0..1,
\* samplesPerMeasurement 0..7, samplingTime 0..3, cycleTime 0..3),
\* setStandbyConfiguration writes the one byte averageSum*128 +
\* samplesPerMeasurement*16 + samplingTime*4 + cycleTime to the standby
\* configuration register and returns true, and a getStandbyConfiguration that
\* follows returns those four values; setAveragingAndSamplingConfig and
\* getAveragingAndSamplingConfig do the same with the three lower fields, bit
\* 7 written as 0.
C25_ConfigFieldsRoundTrip ==
    /\ (call.op = "setStandbyConfiguration" /\ InFieldRange(call.args)) =>
         LET byte == call.args[1] * 128 + call.args[2] * 16 + call.args[3] * 4 + call.args[4]
         IN  /\ acc = << Access("w", CAP1188_STANDBY_CONFIGURATION_REG, byte) >>
             /\ regs[CAP1188_STANDBY_CONFIGURATION_REG] = byte
             /\ call.ret = TRUE
    /\ (/\ call.op = "getStandbyConfiguration"
        /\ prev.op = "setStandbyConfiguration"
        /\ InFieldRange(prev.args)) =>
         call.ret = [averageSum |-> prev.args[1], samplesPerMeasurement |-> prev.args[2],
                     samplingTime |-> prev.args[3], cycleTime |-> prev.args[4],
                     ret |-> TRUE]
    /\ (call.op = "setAveragingAndSamplingConfig" /\ InFieldRange(call.args)) =>
         LET byte == call.args[1] * 16 + call.args[2] * 4 + call.args[3]
         IN  /\ byte < 128
             /\ acc = << Access("w", CAP1188_AVERAGING_AND_SAMPLING_CONFIG_REG, byte) >>
             /\ regs[CAP1188_AVERAGING_AND_SAMPLING_CONFIG_REG] = byte
             /\ call.ret = TRUE
    /\ (/\ call.op = "getAveragingAndSamplingConfig"
        /\ prev.op = "setAveragingAndSamplingConfig"
        /\ InFieldRange(prev.args)) =>
         call.ret = [samplesPerMeasurement |-> prev.args[1], samplingTime |-> prev.args[2],
                     cycleTime |-> prev.args[3], ret |-> TRUE]

\* C25 witness: setStandbyConfiguration(1, 5, 3, 2) wrote 0xDE and the
\* getStandbyConfiguration after it handed the four values back.
C25_Witness ==
    /\ prev = Call("setStandbyConfiguration", <<1, 5, 3, 2>>, TRUE)
    /\ call.op = "getStandbyConfiguration"
    /\ call.ret.samplesPerMeasurement = 5
    /\ call.ret.samplingTime = 3
    /\ regs[CAP1188_STANDBY_CONFIGURATION_REG] = \HDE

=============================================================================
